---------------------------- MODULE Spec2Model ----------------------------
(* NEAR enhanced API server: the RPC view-call layer of src/src/rpc_api.rs. *)
(* A caller invokes one of six queries.  Each query builds a block-pinned  *)
(* CallFunction request, hands it to the JSON-RPC client, is suspended at   *)
(* the await, and when the node has answered classifies the failure or      *)
(* decodes the payload.                                                     *)
(*                                                                          *)
(* Texts that the code inspects (vm_error, the digits of a balance) are     *)
(* sequences of one-character strings; integers wider than 31 bits are      *)
(* little-endian sequences of 16-bit limbs (u32: 2 limbs, u128: 8 limbs).   *)
EXTENDS Integers, Sequences, FiniteSets, TLC

VARIABLES pc, frame, wire, response, result, calls, invocations, repeated

vars == <<pc, frame, wire, response, result, calls, invocations, repeated>>

(* ------------------------------ bounds --------------------------------- *)
MaxInvocations == 3
MaxHeight == 2
MaxLimit == 2
MaxTokens == 3

(* ------------------------------ inputs --------------------------------- *)
Contracts == {"usn", "x.paras.near"}
Accounts == {"cgarls.near"}
TokenIds == {"no_such_token"}
Heights == 1..MaxHeight
Limits == 1..MaxLimit

(* ------------------------------ Result --------------------------------- *)
Ok(v) == [ok |-> TRUE, val |-> v]
Err(e) == [ok |-> FALSE, err |-> e]

(* errors::ErrorKind, the four variants of the domain error *)
InvalidInput(msg) == [kind |-> "InvalidInput", msg |-> msg]
RPCError(msg) == [kind |-> "RPCError", msg |-> msg]
InternalError(msg) == [kind |-> "InternalError", msg |-> msg]
ContractNotFound(contract, block_height) ==
    [kind |-> "ContractNotFound", contract |-> contract, block_height |-> block_height]

ErrorKinds == {"InvalidInput", "RPCError", "InternalError", "ContractNotFound"}

(* errors::contract_not_found(contract_id, block_height) *)
contract_not_found(contract_id, block_height) == ContractNotFound(contract_id, block_height)

(* From<JsonRpcError<RpcQueryError>> for errors::Error: the `x.into()` of   *)
(* wrapped_call; the message renders the whole error: its layer, its kind  *)
(* and the text it carries.                                                 *)
FromJsonRpcError(x) == RPCError(<<<<x.layer>>, <<x.kind>>, x.text>>)

(* From<serde_json::Error> for errors::Error: the `?` after from_slice *)
FromSerdeError(detail) == InternalError(<<"serde_json", detail>>)

(* ------------------------------- texts --------------------------------- *)
CodeDoesNotExist == <<"C", "o", "d", "e", "D", "o", "e", "s", "N", "o", "t", "E", "x", "i", "s", "t">>
MethodNotFound == <<"M", "e", "t", "h", "o", "d", "N", "o", "t", "F", "o", "u", "n", "d">>

VmCodeMissing == <<"C", "o", "m", "p", "i", "l", "a", "t", "i", "o", "n", "E", "r", "r", "o", "r", "(">> \o CodeDoesNotExist \o <<")">>
VmMethodMissing == <<"M", "e", "t", "h", "o", "d", "R", "e", "s", "o", "l", "v", "e", "E", "r", "r", "o", "r", "(">> \o MethodNotFound \o <<")">>
VmGasExceeded == <<"H", "o", "s", "t", "E", "r", "r", "o", "r", "(", "G", "a", "s", "E", "x", "c", "e", "e", "d", "e", "d", ")">>
VmTruncated == <<"C", "o", "d", "e", "D", "o", "e", "s", "N", "o", "t", "E", "x", "i", "s">>
VmLowerCase == <<"m", "e", "t", "h", "o", "d", "n", "o", "t", "f", "o", "u", "n", "d">>
VmRestart == <<"C", "o", "d", "e", "D", "o", "e", "s", "N", "o", "t">> \o CodeDoesNotExist
VmBoth == MethodNotFound \o CodeDoesNotExist
TextReset == <<"c", "o", "n", "n", "e", "c", "t", "i", "o", "n", " ", "r", "e", "s", "e", "t">>

VmTexts == {VmCodeMissing, VmMethodMissing, VmGasExceeded, VmTruncated, VmLowerCase,
            VmRestart, VmBoth, <<>>}

(* str::contains(needle): does needle occur in text at some offset, the    *)
(* offsets tried from the left                                              *)
RECURSIVE ContainsFrom(_, _, _)
ContainsFrom(text, needle, i) ==
    IF i + Len(needle) - 1 > Len(text) THEN FALSE
    ELSE IF SubSeq(text, i, i + Len(needle) - 1) = needle THEN TRUE
    ELSE ContainsFrom(text, needle, i + 1)

Contains(text, needle) == ContainsFrom(text, needle, 1)

(* --------------------------- wide integers ----------------------------- *)
LimbBase == 2^16
U32Limbs == 2
U128Limbs == 8

Zero(n) == [i \in 1..n |-> 0]

(* limbs * m + carry, from limb i upwards: the new limbs and the carry out *)
RECURSIVE MulAddFrom(_, _, _, _)
MulAddFrom(limbs, m, carry, i) ==
    IF i > Len(limbs) THEN [limbs |-> limbs, carry |-> carry]
    ELSE LET t == limbs[i] * m + carry
         IN MulAddFrom([limbs EXCEPT ![i] = t % LimbBase], m, t \div LimbBase, i + 1)

(* uN::checked_mul and uN::checked_add: None when the value leaves N bits *)
CheckedMul(limbs, m) ==
    LET r == MulAddFrom(limbs, m, 0, 1)
    IN IF r.carry # 0 THEN [some |-> FALSE] ELSE [some |-> TRUE, val |-> r.limbs]

CheckedAdd(limbs, d) ==
    LET r == MulAddFrom(limbs, 1, d, 1)
    IN IF r.carry # 0 THEN [some |-> FALSE] ELSE [some |-> TRUE, val |-> r.limbs]

(* char::to_digit(10); -1 stands for None *)
ToDigit(c) ==
    CASE c = "0" -> 0 [] c = "1" -> 1 [] c = "2" -> 2 [] c = "3" -> 3 [] c = "4" -> 4
      [] c = "5" -> 5 [] c = "6" -> 6 [] c = "7" -> 7 [] c = "8" -> 8 [] c = "9" -> 9
      [] OTHER -> -1

(* the digit loop of <uN as FromStr>::from_str *)
RECURSIVE ParseDigits(_, _)
ParseDigits(digits, acc) ==
    IF digits = <<>> THEN Ok(acc)
    ELSE LET d == ToDigit(Head(digits))
         IN IF d < 0 THEN Err("invalid digit found in string")
            ELSE LET m == CheckedMul(acc, 10)
                 IN IF ~m.some THEN Err("number too large to fit in target type")
                    ELSE LET a == CheckedAdd(m.val, d)
                         IN IF ~a.some THEN Err("number too large to fit in target type")
                            ELSE ParseDigits(Tail(digits), a.val)

(* str::parse::<uN>() for an unsigned type of n limbs: Ok(limbs) or         *)
(* Err(the Display text of the ParseIntError)                               *)
ParseUnsigned(src, n) ==
    IF src = <<>> THEN Err("cannot parse integer from empty string")
    ELSE IF Len(src) = 1 /\ Head(src) \in {"+", "-"} THEN Err("invalid digit found in string")
    ELSE ParseDigits(IF Head(src) = "+" THEN Tail(src) ELSE src, Zero(n))

(* ------------------------- sample numeric values ----------------------- *)
(* values as 8 limbs, least significant first *)
V_0 == <<0, 0, 0, 0, 0, 0, 0, 0>>
V_9 == <<9, 0, 0, 0, 0, 0, 0, 0>>
V_10 == <<10, 0, 0, 0, 0, 0, 0, 0>>
V_65536 == <<0, 1, 0, 0, 0, 0, 0, 0>>
V_U32Max == <<65535, 65535, 0, 0, 0, 0, 0, 0>>
V_U32MaxPlus1 == <<0, 0, 1, 0, 0, 0, 0, 0>>
V_2p53Plus1 == <<1, 0, 0, 32, 0, 0, 0, 0>>
V_Balance == <<62464, 60790, 22851, 61113, 0, 0, 0, 0>>
V_U64Max == <<65535, 65535, 65535, 65535, 0, 0, 0, 0>>
V_U64MaxPlus1 == <<0, 0, 0, 0, 1, 0, 0, 0>>
V_U128Max == <<65535, 65535, 65535, 65535, 65535, 65535, 65535, 65535>>

NumSamples == {V_0, V_9, V_10, V_65536, V_U32Max, V_U32MaxPlus1, V_2p53Plus1, V_Balance,
               V_U64Max, V_U64MaxPlus1, V_U128Max}

FitsU32(v) == \A i \in (U32Limbs + 1)..Len(v) : v[i] = 0
AsU32(v) == SubSeq(v, 1, U32Limbs)

IsZero(v) == \A i \in 1..Len(v) : v[i] = 0

(* v divided by 10, from the most significant limb down: quotient and remainder *)
RECURSIVE DivMod10From(_, _, _)
DivMod10From(v, i, rem) ==
    IF i < 1 THEN [quot |-> v, rem |-> rem]
    ELSE LET t == rem * LimbBase + v[i]
         IN DivMod10From([v EXCEPT ![i] = t \div 10], i - 1, t % 10)

DigitChar(d) == <<"0", "1", "2", "3", "4", "5", "6", "7", "8", "9">>[d + 1]

(* the decimal form of v, as the contract writes it on the wire *)
RECURSIVE ToDecimalAcc(_, _)
ToDecimalAcc(v, acc) ==
    IF IsZero(v) THEN acc
    ELSE LET r == DivMod10From(v, Len(v), 0)
         IN ToDecimalAcc(r.quot, <<DigitChar(r.rem)>> \o acc)

ToDecimal(v) == IF IsZero(v) THEN <<"0">> ELSE ToDecimalAcc(v, <<>>)

BalanceExample == <<"1", "7", "2", "0", "1", "8", "7", "8", "3", "9", "9", "9", "9", "9", "9", "9", "6", "9", "2", "8">>
U128MaxPlus1Text == <<"3", "4", "0", "2", "8", "2", "3", "6", "6", "9", "2", "0", "9", "3", "8", "4", "6", "3", "4", "6", "3", "3", "7", "4", "6", "0", "7", "4", "3", "1", "7", "6", "8", "2", "1", "1", "4", "5", "6">>

JunkTexts == {<<>>, <<"+">>, <<"+", "5">>, <<"-", "1">>, <<"1", "2", "a">>, <<" ", "5">>,
              <<"0", "0", "7">>, U128MaxPlus1Text}

(* ------------------------------ payloads ------------------------------- *)
(* the bytes of a CallResult, by what serde_json reads in them *)
JMalformed == [t |-> "malformed"]
JNull == [t |-> "null"]
JNum(n) == [t |-> "num", n |-> n]
JStr(s) == [t |-> "str", s |-> s]
JArr(items) == [t |-> "arr", items |-> items]
JObj(fields) == [t |-> "obj", fields |-> fields]

TokenObj(id, metadata, media_hash) ==
    JObj([shape |-> "Token", token_id |-> id, owner_id |-> "cgarls.near",
          metadata |-> metadata, media_hash |-> media_hash])
FtMetadataObj(reference_hash) ==
    JObj([shape |-> "FungibleTokenMetadata", symbol |-> "USN", decimals |-> 18,
          reference_hash |-> reference_hash])
NftMetadataObj(base_uri) ==
    JObj([shape |-> "NFTContractMetadata", name |-> "Paras", base_uri |-> base_uri])

TokenA == TokenObj("415815:1", "present", "valid")
TokenB == TokenObj("415815:2", "present", "valid")
TokenNoMetadata == TokenObj("415815:3", "absent", "valid")
TokenBadHash == TokenObj("415815:4", "present", "invalid")

ArrayItems == {TokenA, TokenB, TokenNoMetadata, TokenBadHash, JNum(5)}

SeqsUpTo(S, n) == UNION {[1..k -> S] : k \in 0..n}

Payloads ==
    {JMalformed, JNull, JNum(5)}
    \cup {JStr(ToDecimal(v)) : v \in NumSamples}
    \cup {JStr(s) : s \in JunkTexts}
    \cup {JArr(items) : items \in SeqsUpTo(ArrayItems, MaxTokens)}
    \cup {TokenA, TokenNoMetadata, TokenBadHash}
    \cup {FtMetadataObj(h) : h \in {"valid", "invalid"}}
    \cup {NftMetadataObj(u) : u \in {"valid", "invalid"}}

(* ------------------------------ responses ------------------------------ *)
(* what rpc_client.call(request).await yields *)
RpcErrors ==
    {[layer |-> "TransportError", kind |-> "SendError", text |-> t] :
        t \in {TextReset, VmCodeMissing}}
    \cup {[layer |-> "ServerError", kind |-> "InternalError", text |-> t] :
        t \in {TextReset, VmMethodMissing}}
    \cup {[layer |-> "HandlerError", kind |-> "ContractExecutionError", text |-> t] :
        t \in VmTexts}
    \cup {[layer |-> "HandlerError", kind |-> k, text |-> t] :
        k \in {"NoContractCode", "UnknownBlock", "InternalError"},
        t \in {VmCodeMissing, VmMethodMissing}}

Responses ==
    {[ok |-> TRUE, kind |-> "CallResult", body |-> p] : p \in Payloads}
    \cup {[ok |-> TRUE, kind |-> k, body |-> JNull] : k \in {"ViewAccount", "ViewCode"}}
    \cup {[ok |-> FALSE, kind |-> "Error", body |-> x] : x \in RpcErrors}

(* JsonRpcError::handler_error(): the handler error, when the server sent one *)
handler_error(x) ==
    IF x.layer = "HandlerError" THEN [some |-> TRUE, val |-> x] ELSE [some |-> FALSE]

(* ------------------------------ requests ------------------------------- *)
(* serde_json::Value::to_string() of a string, a number, an object *)
RECURSIVE MembersToString(_)
ValueToString(v) ==
    CASE v.t = "str" -> <<"\"", v.s, "\"">>
      [] v.t = "num" -> <<ToString(v.n)>>
      [] OTHER -> <<"null">>

MembersToString(members) ==
    IF members = <<>> THEN <<>>
    ELSE <<"\"", Head(members)[1], "\"", ":">> \o ValueToString(Head(members)[2])
         \o (IF Len(members) > 1 THEN <<",">> ELSE <<>>)
         \o MembersToString(Tail(members))

ObjectToString(members) == <<"{">> \o MembersToString(members) \o <<"}">>

get_function_call_request_latest(block_height, account_id, method_name, args) ==
    [block_reference |-> [type |-> "Finality", finality |-> "Final"],
     request |-> [type |-> "CallFunction", account_id |-> account_id,
                  method_name |-> method_name, args |-> ObjectToString(args)]]

get_function_call_request(block_height, account_id, method_name, args) ==
    [block_reference |-> [type |-> "BlockId",
                          id |-> [type |-> "Height", height |-> block_height]],
     request |-> [type |-> "CallFunction", account_id |-> account_id,
                  method_name |-> method_name, args |-> ObjectToString(args)]]

(* ------------------------------ executor ------------------------------- *)
RpcCallCached(n, prev, request) == IF request = prev THEN n ELSE n + 1

(* rpc_client.call(request): one more request on the wire *)
RpcCall(n, prev, request) == n + 1

UnexpectedKindMessage == <<"Unexpected type of the response after CallFunction request">>

wrapped_call_code_only(resp, block_height, contract_id) ==
    IF resp.ok
    THEN IF resp.kind = "CallResult" THEN Ok(resp.body)
         ELSE Err(RPCError(UnexpectedKindMessage))
    ELSE LET x == resp.body
             h == handler_error(x)
         IN IF /\ h.some
               /\ h.val.kind = "ContractExecutionError"
               /\ Contains(h.val.text, CodeDoesNotExist)
            THEN Err(contract_not_found(contract_id, block_height))
            ELSE Err(FromJsonRpcError(x))

wrapped_call_any_handler(resp, block_height, contract_id) ==
    IF resp.ok
    THEN IF resp.kind = "CallResult" THEN Ok(resp.body)
         ELSE Err(RPCError(UnexpectedKindMessage))
    ELSE LET x == resp.body
             h == handler_error(x)
         IN IF /\ h.some
               /\ \/ Contains(h.val.text, CodeDoesNotExist)
                  \/ Contains(h.val.text, MethodNotFound)
            THEN Err(contract_not_found(contract_id, block_height))
            ELSE Err(FromJsonRpcError(x))

wrapped_call_unwrap_any(resp, block_height, contract_id) ==
    IF resp.ok
    THEN Ok(resp.body)
    ELSE LET x == resp.body
             h == handler_error(x)
         IN IF /\ h.some
               /\ h.val.kind = "ContractExecutionError"
               /\ \/ Contains(h.val.text, CodeDoesNotExist)
                  \/ Contains(h.val.text, MethodNotFound)
            THEN Err(contract_not_found(contract_id, block_height))
            ELSE Err(FromJsonRpcError(x))

(* wrapped_call after the await: unwrap the call result or classify the failure *)
wrapped_call(resp, block_height, contract_id) ==
    IF resp.ok
    THEN IF resp.kind = "CallResult" THEN Ok(resp.body)
         ELSE Err(RPCError(UnexpectedKindMessage))
    ELSE LET x == resp.body
             h == handler_error(x)
         IN IF /\ h.some
               /\ h.val.kind = "ContractExecutionError"
               /\ \/ Contains(h.val.text, CodeDoesNotExist)
                  \/ Contains(h.val.text, MethodNotFound)
            THEN Err(contract_not_found(contract_id, block_height))
            ELSE Err(FromJsonRpcError(x))

(* ------------------------------ decoders ------------------------------- *)
(* serde_json::from_slice::<String>: Ok(text) or Err(serde diagnostic) *)
DeserializeString(p) ==
    IF p.t = "malformed" THEN Err("syntax error")
    ELSE IF p.t = "str" THEN Ok(p.s)
    ELSE Err("invalid type, expected a string")

(* Deserialize for types::U128: a JSON string holding a decimal u128 *)
DeserializeU128(p) ==
    LET s == DeserializeString(p)
    IN IF ~s.ok THEN s ELSE ParseUnsigned(s.val, U128Limbs)

(* Deserialize for types::Token *)
DeserializeToken(p) ==
    IF p.t = "malformed" THEN Err("syntax error")
    ELSE IF p.t = "obj" /\ p.fields.shape = "Token" THEN Ok(p.fields)
    ELSE Err("invalid type, expected struct Token")

(* Deserialize for types::FungibleTokenMetadata *)
DeserializeFungibleTokenMetadata(p) ==
    IF p.t = "malformed" THEN Err("syntax error")
    ELSE IF p.t = "obj" /\ p.fields.shape = "FungibleTokenMetadata" THEN Ok(p.fields)
    ELSE Err("invalid type, expected struct FungibleTokenMetadata")

(* Deserialize for types::NFTContractMetadata *)
DeserializeNFTContractMetadata(p) ==
    IF p.t = "malformed" THEN Err("syntax error")
    ELSE IF p.t = "obj" /\ p.fields.shape = "NFTContractMetadata" THEN Ok(p.fields)
    ELSE Err("invalid type, expected struct NFTContractMetadata")

(* serde_json::from_slice::<Option<types::Token>>: null is None *)
DeserializeOptionToken(p) ==
    IF p.t = "null" THEN Ok([some |-> FALSE])
    ELSE LET d == DeserializeToken(p)
         IN IF ~d.ok THEN d ELSE Ok([some |-> TRUE, val |-> d.val])

(* serde_json::from_slice::<Vec<types::Token>>: every element must be a Token *)
RECURSIVE DeserializeTokens(_, _)
DeserializeTokens(items, acc) ==
    IF items = <<>> THEN Ok(acc)
    ELSE LET d == DeserializeToken(Head(items))
         IN IF ~d.ok THEN d ELSE DeserializeTokens(Tail(items), Append(acc, d.val))

DeserializeVecToken(p) ==
    IF p.t = "malformed" THEN Err("syntax error")
    ELSE IF p.t = "arr" THEN DeserializeTokens(p.items, <<>>)
    ELSE Err("invalid type, expected a sequence")

(* utils::base64_to_string *)
base64_to_string(field) ==
    IF field = "valid" THEN Ok("decoded") ELSE Err(InternalError(<<"base64 decode">>))

(* api_models::NonFungibleToken::try_from(types::Token) *)
NonFungibleTokenTryFrom(token) ==
    IF token.metadata = "absent" THEN Err(InternalError(<<"token has no metadata">>))
    ELSE LET h == base64_to_string(token.media_hash)
         IN IF ~h.ok THEN h
            ELSE Ok([token_id |-> token.token_id, owner_account_id |-> token.owner_id,
                     media_hash |-> h.val])

(* api_models::NftContractMetadata::try_from(types::NFTContractMetadata) *)
NftContractMetadataTryFrom(metadata) ==
    IF metadata.base_uri = "valid" THEN Ok([name |-> metadata.name])
    ELSE Err(InternalError(<<"invalid contract metadata">>))

(* the quote character U+0060 that the format string of get_nft_metadata    *)
(* puts around the token and the contract, and the apostrophe U+0027        *)
GraveAccent == "U+0060"
Apostrophe == "'"

(* ------------------------------- queries ------------------------------- *)
(* Each query is its request (built and sent before the await) and its     *)
(* finish (the rest of the body, run on the answer).                        *)

get_ft_balance_request(contract_id, account_id, block_height) ==
    get_function_call_request(block_height, contract_id, "ft_balance_of",
                              <<<<"account_id", JStr(account_id)>>>>)

get_ft_balance_finish_u64(resp, contract_id, account_id, block_height) ==
    LET r == wrapped_call(resp, block_height, contract_id)
    IN IF ~r.ok THEN r
       ELSE LET s == DeserializeString(r.val)
            IN IF ~s.ok THEN Err(FromSerdeError(s.err))
               ELSE LET d == ParseUnsigned(s.val, 4)
                    IN IF ~d.ok THEN Err(FromSerdeError(d.err))
                       ELSE Ok(d.val \o <<0, 0, 0, 0>>)

get_ft_balance_finish(resp, contract_id, account_id, block_height) ==
    LET r == wrapped_call(resp, block_height, contract_id)
    IN IF ~r.ok THEN r
       ELSE LET d == DeserializeU128(r.val)
            IN IF ~d.ok THEN Err(FromSerdeError(d.err)) ELSE Ok(d.val)

get_ft_metadata_request(contract_id, block_height) ==
    get_function_call_request(block_height, contract_id, "ft_metadata", <<>>)

get_ft_metadata_finish(resp, contract_id, block_height) ==
    LET r == wrapped_call(resp, block_height, contract_id)
    IN IF ~r.ok THEN r
       ELSE LET d == DeserializeFungibleTokenMetadata(r.val)
            IN IF ~d.ok THEN Err(FromSerdeError(d.err))
               ELSE LET h == base64_to_string(d.val.reference_hash)
                    IN IF ~h.ok THEN h
                       ELSE Ok([symbol |-> d.val.symbol, decimals |-> d.val.decimals,
                                reference_hash |-> h.val])

get_nft_general_metadata_request(contract_id, block_height) ==
    get_function_call_request(block_height, contract_id, "nft_metadata", <<>>)

get_nft_general_metadata_finish(resp, contract_id, block_height) ==
    LET r == wrapped_call(resp, block_height, contract_id)
    IN IF ~r.ok THEN r
       ELSE LET d == DeserializeNFTContractMetadata(r.val)
            IN IF ~d.ok THEN Err(FromSerdeError(d.err))
               ELSE NftContractMetadataTryFrom(d.val)

get_nft_count_request(contract_id, account_id, block_height) ==
    get_function_call_request(block_height, contract_id, "nft_supply_for_owner",
                              <<<<"account_id", JStr(account_id)>>>>)

get_nft_count_finish_or_default(resp, contract_id, account_id, block_height) ==
    LET r == wrapped_call(resp, block_height, contract_id)
    IN IF ~r.ok THEN r
       ELSE LET s == DeserializeString(r.val)
            IN IF ~s.ok THEN Err(FromSerdeError(s.err))
               ELSE LET n == ParseUnsigned(s.val, U32Limbs)
                    IN IF ~n.ok THEN Ok(Zero(U32Limbs)) ELSE Ok(n.val)

get_nft_count_finish(resp, contract_id, account_id, block_height) ==
    LET r == wrapped_call(resp, block_height, contract_id)
    IN IF ~r.ok THEN r
       ELSE LET s == DeserializeString(r.val)
            IN IF ~s.ok THEN Err(FromSerdeError(s.err))
               ELSE LET n == ParseUnsigned(s.val, U32Limbs)
                    IN IF ~n.ok
                       THEN Err(InternalError(<<"Failed to parse u32 ", n.err>>))
                       ELSE Ok(n.val)

get_nfts_request(contract_id, account_id, block_height, limit) ==
    get_function_call_request(block_height, contract_id, "nft_tokens_for_owner",
        << <<"account_id", JStr(account_id)>>, <<"from_index", JStr("0")>>,
           <<"limit", JNum(limit)>> >>)

RECURSIVE ConvertTokensSkipping(_, _)
ConvertTokensSkipping(tokens, acc) ==
    IF tokens = <<>> THEN Ok(acc)
    ELSE LET c == NonFungibleTokenTryFrom(Head(tokens))
         IN IF ~c.ok THEN ConvertTokensSkipping(Tail(tokens), acc)
            ELSE ConvertTokensSkipping(Tail(tokens), Append(acc, c.val))

(* the loop of get_nfts: push each converted token, leave on the first failure *)
RECURSIVE ConvertTokens(_, _)
ConvertTokens(tokens, acc) ==
    IF tokens = <<>> THEN Ok(acc)
    ELSE LET c == NonFungibleTokenTryFrom(Head(tokens))
         IN IF ~c.ok THEN c
            ELSE ConvertTokens(Tail(tokens), Append(acc, c.val))

get_nfts_finish(resp, contract_id, account_id, block_height, limit) ==
    LET r == wrapped_call(resp, block_height, contract_id)
    IN IF ~r.ok THEN r
       ELSE LET tokens == DeserializeVecToken(r.val)
            IN IF ~tokens.ok THEN Err(FromSerdeError(tokens.err))
               ELSE ConvertTokens(tokens.val, <<>>)

get_nft_metadata_request(contract_id, token_id, block_height) ==
    get_function_call_request(block_height, contract_id, "nft_token",
                              <<<<"token_id", JStr(token_id)>>>>)

get_nft_metadata_finish_null_internal(resp, contract_id, token_id, block_height) ==
    LET r == wrapped_call(resp, block_height, contract_id)
    IN IF ~r.ok THEN r
       ELSE LET d == DeserializeToken(r.val)
            IN IF ~d.ok THEN Err(FromSerdeError(d.err))
               ELSE NonFungibleTokenTryFrom(d.val)

get_nft_metadata_finish(resp, contract_id, token_id, block_height) ==
    LET r == wrapped_call(resp, block_height, contract_id)
    IN IF ~r.ok THEN r
       ELSE LET d == DeserializeOptionToken(r.val)
            IN IF ~d.ok THEN Err(FromSerdeError(d.err))
               ELSE IF ~d.val.some
                    THEN Err(InvalidInput(<<"Token ", GraveAccent, token_id, GraveAccent,
                                            " does not exist in contract ", GraveAccent,
                                            contract_id, GraveAccent, ", block_height ",
                                            ToString(block_height)>>))
                    ELSE NonFungibleTokenTryFrom(d.val.val)

(* ---------------------------- state machine --------------------------- *)
NoFrame == [fn |-> "none"]
NoRequest == [type |-> "none"]
NoResponse == [type |-> "none"]
NoResult == [type |-> "none"]

Init ==
    /\ pc = "idle"
    /\ frame = NoFrame
    /\ wire = NoRequest
    /\ response = NoResponse
    /\ result = NoResult
    /\ calls = 0
    /\ invocations = 0
    /\ repeated = FALSE

(* a caller enters a query: the request is built and handed to the client, *)
(* and the query is suspended at the await                                  *)
Enter(fr, request) ==
    /\ pc = "idle"
    /\ invocations < MaxInvocations
    /\ frame' = fr
    /\ wire' = request
    /\ calls' = RpcCall(calls, wire, request)
    /\ repeated' = (wire = request)
    /\ invocations' = invocations + 1
    /\ pc' = "awaiting"
    /\ UNCHANGED <<response, result>>

(* the node answers and the query runs to its end *)
Leave(fn, resp, res) ==
    /\ pc = "awaiting"
    /\ frame.fn = fn
    /\ response' = resp
    /\ result' = res
    /\ pc' = "done"
    /\ UNCHANGED <<frame, wire, calls, invocations, repeated>>

get_ft_balance ==
    /\ pc = "idle"
    /\ \E c \in Contracts, a \in Accounts, h \in Heights :
        Enter([fn |-> "get_ft_balance", contract_id |-> c, account_id |-> a,
               block_height |-> h],
              get_ft_balance_request(c, a, h))

get_ft_balance_resume ==
    /\ pc = "awaiting"
    /\ \E resp \in Responses :
        Leave("get_ft_balance", resp,
              get_ft_balance_finish(resp, frame.contract_id, frame.account_id,
                                    frame.block_height))

get_ft_metadata ==
    /\ pc = "idle"
    /\ \E c \in Contracts, h \in Heights :
        Enter([fn |-> "get_ft_metadata", contract_id |-> c, block_height |-> h],
              get_ft_metadata_request(c, h))

get_ft_metadata_resume ==
    /\ pc = "awaiting"
    /\ \E resp \in Responses :
        Leave("get_ft_metadata", resp,
              get_ft_metadata_finish(resp, frame.contract_id, frame.block_height))

get_nft_general_metadata ==
    /\ pc = "idle"
    /\ \E c \in Contracts, h \in Heights :
        Enter([fn |-> "get_nft_general_metadata", contract_id |-> c, block_height |-> h],
              get_nft_general_metadata_request(c, h))

get_nft_general_metadata_resume ==
    /\ pc = "awaiting"
    /\ \E resp \in Responses :
        Leave("get_nft_general_metadata", resp,
              get_nft_general_metadata_finish(resp, frame.contract_id, frame.block_height))

get_nft_count ==
    /\ pc = "idle"
    /\ \E c \in Contracts, a \in Accounts, h \in Heights :
        Enter([fn |-> "get_nft_count", contract_id |-> c, account_id |-> a,
               block_height |-> h],
              get_nft_count_request(c, a, h))

get_nft_count_resume ==
    /\ pc = "awaiting"
    /\ \E resp \in Responses :
        Leave("get_nft_count", resp,
              get_nft_count_finish(resp, frame.contract_id, frame.account_id,
                                   frame.block_height))

get_nfts ==
    /\ pc = "idle"
    /\ \E c \in Contracts, a \in Accounts, h \in Heights, l \in Limits :
        Enter([fn |-> "get_nfts", contract_id |-> c, account_id |-> a,
               block_height |-> h, limit |-> l],
              get_nfts_request(c, a, h, l))

get_nfts_resume ==
    /\ pc = "awaiting"
    /\ \E resp \in Responses :
        Leave("get_nfts", resp,
              get_nfts_finish(resp, frame.contract_id, frame.account_id,
                              frame.block_height, frame.limit))

get_nft_metadata ==
    /\ pc = "idle"
    /\ \E c \in Contracts, t \in TokenIds, h \in Heights :
        Enter([fn |-> "get_nft_metadata", contract_id |-> c, token_id |-> t,
               block_height |-> h],
              get_nft_metadata_request(c, t, h))

get_nft_metadata_resume ==
    /\ pc = "awaiting"
    /\ \E resp \in Responses :
        Leave("get_nft_metadata", resp,
              get_nft_metadata_finish(resp, frame.contract_id, frame.token_id,
                                      frame.block_height))

(* the caller takes the result; the query's frame is gone *)
Return ==
    /\ pc = "done"
    /\ pc' = "idle"
    /\ frame' = NoFrame
    /\ response' = NoResponse
    /\ result' = NoResult
    /\ repeated' = FALSE
    /\ UNCHANGED <<wire, calls, invocations>>

Next ==
    \/ get_ft_balance
    \/ get_ft_balance_resume
    \/ get_ft_metadata
    \/ get_ft_metadata_resume
    \/ get_nft_general_metadata
    \/ get_nft_general_metadata_resume
    \/ get_nft_count
    \/ get_nft_count_resume
    \/ get_nfts
    \/ get_nfts_resume
    \/ get_nft_metadata
    \/ get_nft_metadata_resume
    \/ Return

Spec == Init /\ [][Next]_vars

(* ------------------------------ properties ---------------------------- *)
Done == pc = "done"
CallSucceeded == Done /\ response.ok /\ response.kind = "CallResult"
CallFailed == Done /\ ~response.ok
Payload == response.body

(* needle occurs in text *)
Occurs(text, needle) ==
    \E i \in 1..(Len(text) - Len(needle) + 1) : SubSeq(text, i, i + Len(needle) - 1) = needle

(* a contract-execution handler error whose vm_error holds a trigger phrase *)
TriggerFailure ==
    /\ CallFailed
    /\ response.body.layer = "HandlerError"
    /\ response.body.kind = "ContractExecutionError"
    /\ \/ Occurs(response.body.text, CodeDoesNotExist)
       \/ Occurs(response.body.text, MethodNotFound)

IsErr(kind) == ~result.ok /\ result.err.kind = kind

(* C1: a failed call whose contract-execution diagnostic contains          *)
(* CodeDoesNotExist or MethodNotFound ends the query with                   *)
(* ContractNotFound{contract, block_height} of the caller's own contract    *)
(* and height, and never with RPCError; either phrase gives the same error. *)
C1_TriggerIsContractNotFound ==
    TriggerFailure =>
        /\ IsErr("ContractNotFound")
        /\ result.err.contract = frame.contract_id
        /\ result.err.block_height = frame.block_height

C1_Witness ==
    /\ TriggerFailure
    /\ response.body.text = VmMethodMissing
    /\ frame.contract_id = "x.paras.near"
    /\ frame.block_height = 2
    /\ IsErr("ContractNotFound")

(* C2: every other failed call (transport error, server error without a    *)
(* handler error, handler error of another kind whatever its text, contract *)
(* execution error with other text) ends the query with RPCError whose      *)
(* message carries the error's own text; and an error result is always one  *)
(* of the four variants.                                                    *)
C2_OtherFailuresAreRPCError ==
    /\ (CallFailed /\ ~TriggerFailure) =>
           /\ IsErr("RPCError")
           /\ \E i \in 1..Len(result.err.msg) : result.err.msg[i] = response.body.text
    /\ CallFailed => ~result.ok
    /\ (Done /\ ~result.ok) => result.err.kind \in ErrorKinds

C2_Witness ==
    /\ CallFailed
    /\ response.body.layer = "HandlerError"
    /\ response.body.kind = "NoContractCode"
    /\ response.body.text = VmCodeMissing
    /\ IsErr("RPCError")

NoSuchTokenMessage(quote) ==
    <<"Token ", quote, frame.token_id, quote, " does not exist in contract ", quote,
      frame.contract_id, quote, ", block_height ", ToString(frame.block_height)>>

NullToken == CallSucceeded /\ frame.fn = "get_nft_metadata" /\ Payload = JNull

C3_Distinctions ==
    /\ NullToken => ~result.ok
    /\ (Done /\ frame.fn = "get_nft_metadata" /\ IsErr("ContractNotFound")) => TriggerFailure
    /\ (CallSucceeded /\ frame.fn = "get_nft_metadata" /\ Payload # JNull /\ ~result.ok)
           => IsErr("InternalError")

(* C3 as stated: the message of the no-such-token error puts apostrophes    *)
(* around the token id and the contract id.                                 *)
C3_Original ==
    /\ NullToken => (IsErr("InvalidInput") /\ result.err.msg = NoSuchTokenMessage(Apostrophe))
    /\ C3_Distinctions

(* C3 amended: a null payload of the single-NFT query gives InvalidInput    *)
(* with the message Token <q>t<q> does not exist in contract <q>c<q>,       *)
(* block_height h, where <q> is the grave accent U+0060; it is never a      *)
(* token, ContractNotFound comes only from a failed call with a trigger     *)
(* phrase, and a present payload that does not decode gives InternalError.  *)
C3_NullIsInvalidInput ==
    /\ NullToken => (IsErr("InvalidInput") /\ result.err.msg = NoSuchTokenMessage(GraveAccent))
    /\ C3_Distinctions

C3_Witness ==
    /\ NullToken
    /\ frame.contract_id = "x.paras.near"
    /\ frame.token_id = "no_such_token"
    /\ IsErr("InvalidInput")

Digits == {"0", "1", "2", "3", "4", "5", "6", "7", "8", "9"}

(* a text that is no decimal number: empty, a lone sign, or a character     *)
(* other than a digit after an optional leading plus sign                   *)
NonNumeric(text) ==
    \/ text = <<>>
    \/ text = <<"+">>
    \/ \E i \in 1..Len(text) : text[i] \notin Digits /\ ~(i = 1 /\ text[i] = "+")

DecimalOf == [v \in NumSamples |-> ToDecimal(v)]

(* a decimal text whose value is above u32::MAX *)
AboveU32(text) ==
    \/ text = U128MaxPlus1Text
    \/ \E v \in NumSamples : ~FitsU32(v) /\ text = DecimalOf[v]

ExpectedJsonTypes(fn) ==
    CASE fn \in {"get_ft_balance", "get_nft_count"} -> {"str"}
      [] fn \in {"get_ft_metadata", "get_nft_general_metadata"} -> {"obj"}
      [] fn = "get_nfts" -> {"arr"}
      [] fn = "get_nft_metadata" -> {"obj", "null"}

ParseDiagnostics ==
    {"cannot parse integer from empty string", "invalid digit found in string",
     "number too large to fit in target type"}

(* C4: a successful call whose payload is malformed JSON, a JSON value of   *)
(* the wrong type, or (balance, supply) a string that is no number in range *)
(* ends each of the six queries with InternalError, never with a value; the *)
(* supply query on a string that is no decimal u32 gives the message        *)
(* Failed to parse u32 followed by the parse diagnostic.                    *)
C4_DecodeFailureIsInternalError ==
    /\ (CallSucceeded /\ Payload.t \notin ExpectedJsonTypes(frame.fn)) => IsErr("InternalError")
    /\ (CallSucceeded /\ frame.fn = "get_ft_balance" /\ Payload.t = "str"
          /\ (NonNumeric(Payload.s) \/ Payload.s = U128MaxPlus1Text))
           => IsErr("InternalError")
    /\ (CallSucceeded /\ frame.fn = "get_nft_count" /\ Payload.t = "str"
          /\ (NonNumeric(Payload.s) \/ AboveU32(Payload.s)))
           => /\ IsErr("InternalError")
              /\ Len(result.err.msg) = 2
              /\ result.err.msg[1] = "Failed to parse u32 "
              /\ result.err.msg[2] \in ParseDiagnostics

C4_Witness ==
    /\ CallSucceeded
    /\ frame.fn = "get_nft_count"
    /\ Payload = JStr(<<"1", "2", "a">>)
    /\ result = Err(InternalError(<<"Failed to parse u32 ", "invalid digit found in string">>))

IsTokenRecord(item) == item.t = "obj" /\ item.fields.shape = "Token"
Converts(item) == item.fields.metadata = "present" /\ item.fields.media_hash = "valid"

TokenRecords ==
    /\ CallSucceeded
    /\ frame.fn = "get_nfts"
    /\ Payload.t = "arr"
    /\ \A i \in 1..Len(Payload.items) : IsTokenRecord(Payload.items[i])

(* C5: on an array of N token records the list query returns N tokens in   *)
(* the order of the array when every record converts; otherwise it returns  *)
(* the error of the failing record of lowest index and no sequence.         *)
C5_AllOrFirstError ==
    TokenRecords =>
        LET items == Payload.items
            failing == {i \in 1..Len(items) : ~Converts(items[i])}
        IN IF failing = {}
           THEN /\ result.ok
                /\ Len(result.val) = Len(items)
                /\ \A i \in 1..Len(items) : result.val[i].token_id = items[i].fields.token_id
           ELSE LET k == CHOOSE i \in failing : \A j \in failing : i <= j
                IN result = NonFungibleTokenTryFrom(items[k].fields) /\ ~result.ok

C5_Witness ==
    /\ TokenRecords
    /\ Payload.items = <<TokenA, TokenBadHash, TokenNoMetadata>>
    /\ result = Err(InternalError(<<"base64 decode">>))

FirstPageArgs ==
    <<"{", "\"", "account_id", "\"", ":", "\"", frame.account_id, "\"", ",",
      "\"", "from_index", "\"", ":", "\"", "0", "\"", ",",
      "\"", "limit", "\"", ":", ToString(frame.limit), "}">>

(* the request half of C6 *)
C6_FirstPageRequested ==
    (pc \in {"awaiting", "done"} /\ frame.fn = "get_nfts") => wire.request.args = FirstPageArgs

(* C6: the list query sends from_index "0" and the caller's limit L, and   *)
(* whatever the contract answers the sequence it returns has at most L      *)
(* items.                                                                   *)
C6_AtMostLimit ==
    /\ C6_FirstPageRequested
    /\ (Done /\ frame.fn = "get_nfts" /\ result.ok) => Len(result.val) <= frame.limit

(* C7: the request of every query names the caller's block height as an    *)
(* explicit height (no finality) and the caller's contract, and that height *)
(* is the one a ContractNotFound or InvalidInput error of the query reports.*)
C7_HeightPinned ==
    /\ pc \in {"awaiting", "done"} =>
           /\ wire.block_reference =
                  [type |-> "BlockId", id |-> [type |-> "Height", height |-> frame.block_height]]
           /\ wire.request.type = "CallFunction"
           /\ wire.request.account_id = frame.contract_id
    /\ (Done /\ IsErr("ContractNotFound")) =>
           /\ result.err.block_height = frame.block_height
           /\ result.err.contract = frame.contract_id
    /\ (Done /\ IsErr("InvalidInput")) =>
           result.err.msg[Len(result.err.msg)] = ToString(frame.block_height)

C7_Witness ==
    /\ Done
    /\ frame.block_height = 2
    /\ IsErr("ContractNotFound")
    /\ wire.block_reference.id.height = 2

(* C8: a query issues one RPC call: the calls made equal the invocations   *)
(* begun at every moment, so a failed call is answered with its error and   *)
(* no second call, and a repeated invocation sends its own request.         *)
C8_OneCallPerInvocation ==
    /\ calls = invocations
    /\ CallFailed => ~result.ok

C8_Witness ==
    /\ CallFailed
    /\ repeated
    /\ invocations = 2
    /\ calls = 2
    /\ response.body.layer = "TransportError"
    /\ IsErr("RPCError")

OtherKind == Done /\ response.ok /\ response.kind # "CallResult"

(* C9 as stated: the message is "unexpected response kind" *)
C9_Original ==
    /\ OtherKind => result = Err(RPCError(<<"unexpected response kind">>))
    /\ (Done /\ result.ok) => CallSucceeded

(* C9 amended: a successful response of another kind than a call result    *)
(* gives RPCError("Unexpected type of the response after CallFunction       *)
(* request"), whatever the query, so no decoder ran; a value is returned    *)
(* only from a call result.                                                 *)
C9_UnexpectedKindIsRPCError ==
    /\ OtherKind =>
           result = Err(RPCError(<<"Unexpected type of the response after CallFunction request">>))
    /\ (Done /\ result.ok) => CallSucceeded

C9_Witness ==
    /\ OtherKind
    /\ response.kind = "ViewAccount"
    /\ frame.fn = "get_nft_metadata"
    /\ IsErr("RPCError")

(* C10: the decimal form of a value decodes to that value: any u128 for    *)
(* the balance query, any u32 for the supply query; the balance payload     *)
(* "17201878399999996928" decodes to 17201878399999996928.                  *)
C10_RoundTrip ==
    /\ \A v \in NumSamples :
           (CallSucceeded /\ Payload = JStr(DecimalOf[v])) =>
               /\ frame.fn = "get_ft_balance" => result = Ok(v)
               /\ (frame.fn = "get_nft_count" /\ FitsU32(v)) => result = Ok(AsU32(v))
    /\ (CallSucceeded /\ frame.fn = "get_ft_balance" /\ Payload = JStr(BalanceExample))
           => result = Ok(V_Balance)

C10_Witness ==
    /\ CallSucceeded
    /\ frame.fn = "get_ft_balance"
    /\ Payload = JStr(DecimalOf[V_U128Max])
    /\ result = Ok(V_U128Max)

=============================================================================
